---- MODULE Spec2Model ----
(***************************************************************************)
(* mars-pulsar: the recursive-descent parser (src/src/parser.rs) and the   *)
(* tree-walking interpreter (src/src/interpreter.rs).                      *)
(*                                                                         *)
(* A program is a token sequence.  Parser::parse turns it into a sequence  *)
(* of Expr, one top-level statement per loop iteration; Interpreter::new   *)
(* builds the top-level scope; Interpreter::run evaluates the statements   *)
(* in order.  A panic! anywhere aborts the program.                        *)
(***************************************************************************)
EXTENDS Integers, Sequences, FiniteSets, TLC

VARIABLES tokens, pos, exprs, phase, err, pc, toplevel_scope, last, calls

vars == <<tokens, pos, exprs, phase, err, pc, toplevel_scope, last, calls>>

(***************************************************************************)
(* Bounds of the input space.                                              *)
(***************************************************************************)
MaxChain == 2       \* operators in a generated literal chain n1 op1 n2 ...
MaxToks == 4        \* length of the generated free token sequences

(***************************************************************************)
(* Tokens (crate::lexer::Token, used by parser.rs).                        *)
(***************************************************************************)
Num(n) == [t |-> "Num", n |-> n]
Str(s) == [t |-> "String", s |-> s]
Bool(b) == [t |-> "Bool", b |-> b]
Identifier(id) == [t |-> "Identifier", id |-> id]
OperatorTok(op) == [t |-> "Operator", op |-> op]
Type(ty) == [t |-> "Type", ty |-> ty]
Func == [t |-> "Func"]
ReturnTok == [t |-> "Return"]
SetValTok == [t |-> "SetVal"]
LParen == [t |-> "LParen"]
RParen == [t |-> "RParen"]
LBrace == [t |-> "LBrace"]
RBrace == [t |-> "RBrace"]
Comma == [t |-> "Comma"]
Semicolon == [t |-> "Semicolon"]
ReturnType == [t |-> "ReturnType"]
Error == [t |-> "Error"]
\* Iterator::next / Peekable::peek on an exhausted iterator
None == [t |-> "None"]

(***************************************************************************)
(* Expr, the AST (parser.rs 50-71).                                        *)
(***************************************************************************)
TokenE(tok) == [e |-> "Token", tok |-> tok]
BinaryExpr(op, lhs, rhs) == [e |-> "BinaryExpr", op |-> op, lhs |-> lhs, rhs |-> rhs]
FnCall(name, args) == [e |-> "FnCall", name |-> name, args |-> args]
FnDef(name, args, body, return_type) ==
    [e |-> "FnDef", name |-> name, args |-> args, body |-> body,
     return_type |-> return_type]
Return(inner) == [e |-> "Return", inner |-> inner]

\* Operator::from_str (parser.rs 22-33); "panic" stands for panic!("Unknown operator")
from_str(s) ==
    CASE s = "+" -> "Add"
      [] s = "-" -> "Sub"
      [] s = "*" -> "Mul"
      [] s = "/" -> "Div"
      [] s = "==" -> "Eq"
      [] s = "!=" -> "Neq"
      [] s = ":=" -> "SetVal"
      [] OTHER -> "panic"

\* the match on op.as_str() of the Token::Num arm (parser.rs 164-214);
\* "panic" stands for panic!("Expected operator")
num_operator(s) ==
    CASE s = "+" -> "Add"
      [] s = "-" -> "Sub"
      [] s = "*" -> "Mul"
      [] s = "/" -> "Div"
      [] s = "=" -> "Eq"
      [] s = "!=" -> "Neq"
      [] OTHER -> "panic"

(***************************************************************************)
(* The parser.  The Peekable<Iter<Token>> is the pair (toks, p): p is the  *)
(* index of the token next() would yield.  Every parse function returns    *)
(* [expr, pos, err]: err = "" on success, else the panic message (and the  *)
(* other fields are then meaningless).                                     *)
(***************************************************************************)
peek(toks, p) == IF p <= Len(toks) THEN toks[p] ELSE None
\* position after next(): an exhausted iterator stays exhausted
advance(toks, p) == IF p <= Len(toks) THEN p + 1 ELSE p

Ok(expr, p) == [expr |-> expr, pos |-> p, err |-> ""]
Panic(msg, p) == [expr |-> TokenE(Error), pos |-> p, err |-> msg]

\* sc_after with line 221 left out: the check stays on after a definition
sc_after_unchanged(tk, sc_check) == sc_check

\* parser.rs 220-223: a func definition switches the terminator check off
sc_after(tk, sc_check) == IF tk.t = "Func" THEN FALSE ELSE sc_check

\* parser.rs 226-234: the terminator check
terminator(toks, r, sc_check) ==
    IF r.err # "" THEN r
    ELSE IF sc_check
         THEN IF peek(toks, r.pos) = Semicolon
              THEN Ok(r.expr, advance(toks, r.pos))
              ELSE Panic("Expected semicolon", r.pos)
         ELSE r

RECURSIVE parse_expr(_, _, _)
RECURSIVE parse_fn_def(_, _)
RECURSIVE parse_params(_, _, _, _)
RECURSIVE handle_func_block(_, _)
RECURSIVE func_block_loop(_, _, _)
RECURSIVE parse_fn_call(_, _, _)
RECURSIVE fn_call_loop(_, _, _, _)

\* body_stmt asking for no terminator, as an argument is parsed
body_stmt_unterminated(toks, p) == parse_expr(toks, p, FALSE)

\* the statement a function body is parsed with (parser.rs 311)
body_stmt(toks, p) == parse_expr(toks, p, TRUE)

\* parser.rs 310-321: the loop of handle_func_block; the result's expr is the
\* sequence of body statements
func_block_loop(toks, p, acc) ==
    LET r == body_stmt(toks, p)
    IN  IF r.err # "" THEN r
        ELSE IF peek(toks, r.pos) = RBrace
             THEN Ok(Append(acc, r.expr), advance(toks, r.pos))
             ELSE func_block_loop(toks, r.pos, Append(acc, r.expr))

\* parser.rs 306-322
handle_func_block(toks, p) == func_block_loop(toks, p, <<>>)

\* parser.rs 333-342: the argument loop of parse_fn_call
fn_call_loop(ident, toks, p, acc) ==
    LET r == parse_expr(toks, p, FALSE)
        nx == peek(toks, r.pos)
    IN  IF r.err # "" THEN r
        ELSE IF nx = Comma
             THEN fn_call_loop(ident, toks, advance(toks, r.pos), Append(acc, r.expr))
             ELSE IF nx = RParen
                  THEN Ok(FnCall(ident, Append(acc, r.expr)), advance(toks, r.pos))
                  ELSE Panic("Expect comma, or ')'", r.pos)

\* parser.rs 324-344
parse_fn_call(ident, toks, p) ==
    IF peek(toks, p) = RParen
    THEN Ok(FnCall(ident, <<>>), advance(toks, p))
    ELSE fn_call_loop(ident, toks, p, <<>>)

\* parser.rs 248-274: the parameter loop of parse_fn_def; vals is the
\* HashMap<(usize, String), Expr> as a set of [idx, name, ty]; the result's
\* expr is vals
parse_params(toks, p, idx, vals) ==
    IF peek(toks, p).t # "Type" THEN Panic("Expected type", p)
    ELSE IF peek(toks, p + 1).t # "Identifier" THEN Panic("Expected identifier", p + 1)
    ELSE LET nv == vals \cup {[idx |-> idx, name |-> peek(toks, p + 1).id,
                               ty |-> peek(toks, p).ty]}
             nx == peek(toks, p + 2)
         IN  IF nx = Comma THEN parse_params(toks, p + 3, idx + 1, nv)
             ELSE IF nx = RParen THEN Ok(nv, p + 3)
             ELSE Panic("Expected comma, or ')'", p + 2)

\* parser.rs 237-304
parse_fn_def(toks, p) ==
    IF peek(toks, p).t # "Identifier" THEN Panic("Expected identifier", p)
    ELSE IF peek(toks, p + 1) # LParen THEN Panic("Expected '('", p + 1)
    ELSE
    LET ident == peek(toks, p).id
        ps == IF peek(toks, p + 2) = RParen
              THEN Ok({}, p + 3)
              ELSE parse_params(toks, p + 2, 0, {})
        q == ps.pos
        nx == peek(toks, q)
    IN  IF ps.err # "" THEN ps
        ELSE IF nx = ReturnType
        THEN IF peek(toks, q + 1).t # "Type" THEN Panic("Expected type", q + 1)
             ELSE IF peek(toks, q + 2) # LBrace THEN Panic("Expected brace", q + 2)
             ELSE LET b == handle_func_block(toks, q + 3)
                  IN  IF b.err # "" THEN b
                      ELSE Ok(FnDef(ident, ps.expr, b.expr, peek(toks, q + 1).ty), b.pos)
        ELSE IF nx = LBrace
        THEN LET b == handle_func_block(toks, q + 1)
             IN  IF b.err # "" THEN b
                 ELSE Ok(FnDef(ident, ps.expr, b.expr, "_none"), b.pos)
        ELSE Panic("Expected a return statement or brace", q)

\* parse_rhs taking one operand only, as a left-associating parser would
parse_rhs_operand(toks, p) == Ok(TokenE(peek(toks, p)), advance(toks, p))

\* parser.rs 132, 148, 163: the right-hand side of a binary expression is
\* whatever parse_expr makes of the rest of the stream
parse_rhs(toks, p) == parse_expr(toks, p, FALSE)

\* literal_leaf chaining an operator after the literal, as the identifier
\* arm does
literal_leaf_chained(toks, tk, q) ==
    LET nx == peek(toks, q)
        sub == parse_rhs(toks, advance(toks, q))
    IN  IF nx.t = "Operator"
        THEN IF sub.err # "" THEN sub
             ELSE IF from_str(nx.op) = "panic" THEN Panic("Unknown operator", sub.pos)
             ELSE Ok(BinaryExpr(from_str(nx.op), TokenE(tk), sub.expr), sub.pos)
        ELSE Ok(TokenE(tk), q)

\* parser.rs 218-219: a boolean or string literal tk is a bare leaf; q is
\* the position after it
literal_leaf(toks, tk, q) == Ok(TokenE(tk), q)

\* parser.rs 115-235
parse_expr(toks, p, sc_check) ==
    LET tk == peek(toks, p)
        q == advance(toks, p)
        nx == peek(toks, q)
        sub == parse_rhs(toks, advance(toks, q))
        r == CASE tk.t = "Return" ->
                    LET in == parse_expr(toks, q, FALSE)
                    IN  IF in.err # "" THEN in ELSE Ok(Return(in.expr), in.pos)
               [] tk.t = "Identifier" ->
                    CASE nx = SetValTok ->
                           IF sub.err # "" THEN sub
                           ELSE Ok(BinaryExpr("SetVal", TokenE(tk), sub.expr), sub.pos)
                      [] nx = LParen ->
                           parse_fn_call(tk.id, toks, advance(toks, q))
                      [] nx.t = "Operator" ->
                           IF sub.err # "" THEN sub
                           ELSE IF from_str(nx.op) = "panic"
                                THEN Panic("Unknown operator", sub.pos)
                                ELSE Ok(BinaryExpr(from_str(nx.op), TokenE(tk), sub.expr),
                                        sub.pos)
                      [] OTHER -> Ok(TokenE(tk), q)
               [] tk.t = "Num" ->
                    IF nx.t = "Operator"
                    THEN IF sub.err # "" THEN sub
                         ELSE IF num_operator(nx.op) = "panic"
                              THEN Panic("Expected operator", sub.pos)
                              ELSE Ok(BinaryExpr(num_operator(nx.op), TokenE(tk), sub.expr),
                                      sub.pos)
                    ELSE Ok(TokenE(tk), q)
               [] tk.t = "Bool" -> literal_leaf(toks, tk, q)
               [] tk.t = "String" -> literal_leaf(toks, tk, q)
               [] tk.t = "Func" -> parse_fn_def(toks, q)
               [] OTHER -> Ok(TokenE(Error), q)
    IN  terminator(toks, r, sc_after(tk, sc_check))

\* the statement the top-level loop is parsed with (parser.rs 108)
top_stmt(toks, p) == parse_expr(toks, p, TRUE)

(***************************************************************************)
(* Values (interpreter.rs 23-59).                                          *)
(***************************************************************************)
IntV(i) == [v |-> "Int", i |-> i]
StringV(s) == [v |-> "String", s |-> s]
BoolV(b) == [v |-> "Bool", b |-> b]
Fn(f) == [v |-> "Fn", f |-> f]
Nothing == [v |-> "Nothing"]
UserFn(name, args, body, return_type) ==
    [kind |-> "User", name |-> name, args |-> args, body |-> body,
     return_type |-> return_type]
BuiltinFn(name, return_type) ==
    [kind |-> "Builtin", name |-> name, return_type |-> return_type]

(***************************************************************************)
(* Scopes.  A scope is a HashMap<String, &Value>: a function from the      *)
(* bound names to references.  A reference is [val, live]: val is the      *)
(* Value it was taken of, live says whether that Value still exists.       *)
(* Every reference the interpreter itself takes is of a local or a         *)
(* temporary that is dropped before the reference is next used             *)
(* (interpreter.rs 139, 235, 261), so it is stored with live = FALSE.      *)
(***************************************************************************)
EmptyScope == [n \in {} |-> Nothing]
insert(scope, key, ref) ==
    [n \in DOMAIN scope \cup {key} |-> IF n = key THEN ref ELSE scope[n]]
\* &local, used after the local is gone
Dangling(val) == [val |-> val, live |-> FALSE]
Live(val) == [val |-> val, live |-> TRUE]

\* What a read through a reference yields.  Through a dangling reference it
\* is whatever now lies in the dropped Value's place: the old Value, Nothing,
\* or any other Value the run has produced.
deref(ref, scope) ==
    IF ref.live THEN {ref.val}
    ELSE {ref.val, Nothing} \cup {scope[n].val : n \in DOMAIN scope}

\* builtins::make_builtins and builtins::call_builtin are not part of the
\* two source files; their contract is the one of the specification, 6.
make_builtins(scope) == insert(scope, "print", Live(Fn(BuiltinFn("print", Nothing))))
call_builtin(name, passed_args, return_type) == return_type

\* Display of the lhs of an assignment (parser.rs 76): the identifier's name
to_string(expr) == IF expr.tok.t = "Identifier" THEN expr.tok.id ELSE "?"

\* interpreter.rs 121-129; "panic" stands for panic!("Invalid type name")
get_valuetype_from(name) ==
    CASE name = "bool" -> "Bool"
      [] name = "int" -> "Int"
      [] name = "string" -> "String"
      [] name = "_none" -> "Nothing"
      [] OTHER -> "panic"

\* Rust's i64 division truncates toward zero
TruncDiv(a, b) ==
    LET abs(x) == IF x < 0 THEN -x ELSE x
        m == abs(a) \div abs(b)
    IN  IF (a < 0) = (b < 0) THEN m ELSE -m

(***************************************************************************)
(* Evaluation.  interpret_expr yields the SET of outcomes a run can have   *)
(* (more than one only where a dangling reference is read or a HashMap is  *)
(* iterated).  An outcome is [val, scope, err, calls]: err = "" or the     *)
(* panic message; calls logs the user-function calls made, each with the   *)
(* function read, the passed references, the caller's scope and the        *)
(* new_scope built.                                                        *)
(***************************************************************************)
Out(val, scope, cs) == [val |-> val, scope |-> scope, err |-> "", calls |-> cs]
Fail(msg, scope, cs) == [val |-> Nothing, scope |-> scope, err |-> msg, calls |-> cs]

\* the match (left_side, right_side) of each operator arm
\* (interpreter.rs 149-153, 162-165, 174-177, 186-189, 198-203, 212-217)
apply_op(op, l, r) ==
    LET same == l.v = r.v /\ l.v \in {"Int", "String", "Bool"}
        ints == l.v = "Int" /\ r.v = "Int"
        eq == l = r
    IN  CASE op = "Add" ->
               IF ints THEN [val |-> IntV(l.i + r.i), err |-> ""]
               ELSE IF l.v = "String" /\ r.v = "String"
                    THEN [val |-> StringV(l.s \o r.s), err |-> ""]
                    ELSE [val |-> Nothing, err |-> "Cannot add non-numeric values"]
          [] op = "Sub" ->
               IF ints THEN [val |-> IntV(l.i - r.i), err |-> ""]
               ELSE [val |-> Nothing, err |-> "Cannot subtract non-numeric values"]
          [] op = "Mul" ->
               IF ints THEN [val |-> IntV(l.i * r.i), err |-> ""]
               ELSE [val |-> Nothing, err |-> "Cannot multiply non-numeric values"]
          [] op = "Div" ->
               IF ints
               THEN IF r.i = 0
                    THEN [val |-> Nothing, err |-> "attempt to divide by zero"]
                    ELSE [val |-> IntV(TruncDiv(l.i, r.i)), err |-> ""]
               ELSE [val |-> Nothing, err |-> "Cannot divide non-numeric values"]
          [] op = "Eq" ->
               IF same THEN [val |-> BoolV(eq), err |-> ""]
               ELSE [val |-> Nothing, err |-> "Cannot compare non-numeric values"]
          [] op = "Neq" ->
               IF same THEN [val |-> BoolV(~eq), err |-> ""]
               ELSE [val |-> Nothing, err |-> "Cannot compare non-numeric values"]

\* new_scopes with a parameter bound only where the caller has no binding
new_scopes_caller_kept(scope, args, passed_args) ==
    LET names == {a.name : a \in args}
    IN  {[n \in DOMAIN scope \cup names |->
            IF n \in DOMAIN scope THEN scope[n]
            ELSE passed_args[(CHOOSE a \in args : a.name = n).idx + 1]]}

\* interpreter.rs 107-110: new_scope, for every order the HashMap of the
\* parameters can be iterated in (it matters when two parameters share a name)
new_scopes(scope, args, passed_args) ==
    LET names == {a.name : a \in args}
        picks == {ch \in [names -> {a.idx : a \in args}] :
                    \A n \in names : [idx |-> ch[n], name |-> n] \in
                                        {[idx |-> a.idx, name |-> a.name] : a \in args}}
    IN  {[n \in DOMAIN scope \cup names |->
            IF n \in names THEN passed_args[ch[n] + 1] ELSE scope[n]] : ch \in picks}

\* call_user binding the parameters in the caller's HashMap instead of a clone
call_user_in_caller_scope(name, f, passed_args, scope) ==
    IF \E a \in f.args : a.idx >= Len(passed_args)
    THEN {Fail("index out of bounds", scope,
               <<[name |-> name, f |-> f, passed |-> passed_args, caller |-> scope,
                  new_scope |-> scope, bound |-> FALSE]>>)}
    ELSE {Out(Nothing, ns,
              <<[name |-> name, f |-> f, passed |-> passed_args, caller |-> scope,
                 new_scope |-> ns, bound |-> TRUE]>>) :
            ns \in new_scopes(scope, f.args, passed_args)}

\* interpreter.rs 100-112: the FnType::User arm of call_fn
call_user(name, f, passed_args, scope) ==
    IF \E a \in f.args : a.idx >= Len(passed_args)
    THEN {Fail("index out of bounds", scope,
               <<[name |-> name, f |-> f, passed |-> passed_args, caller |-> scope,
                  new_scope |-> scope, bound |-> FALSE]>>)}
    ELSE {Out(Nothing, scope,
              <<[name |-> name, f |-> f, passed |-> passed_args, caller |-> scope,
                 new_scope |-> ns, bound |-> TRUE]>>) :
            ns \in new_scopes(scope, f.args, passed_args)}

\* interpreter.rs 94-119
call_fn(name, passed_args, scope) ==
    IF name \notin DOMAIN scope
    THEN {Fail("Undefined function", scope, <<>>)}
    ELSE UNION {
           IF key.v = "Fn" /\ key.f.kind = "Builtin"
           THEN {Out(call_builtin(key.f.name, passed_args, key.f.return_type), scope, <<>>)}
           ELSE IF key.v = "Fn" /\ key.f.kind = "User"
                THEN call_user(name, key.f, passed_args, scope)
                ELSE {Fail("Not a function", scope, <<>>)}
           : key \in deref(scope[name], scope)}

RECURSIVE interpret_expr(_, _)
RECURSIVE eval_args(_, _, _, _, _)

\* interpreter.rs 233-236: the argument loop of a FnCall, from argument i on;
\* an outcome's val is the args_vec
eval_args(args, i, scope, args_vec, cs) ==
    IF i > Len(args) THEN {Out(args_vec, scope, cs)}
    ELSE UNION {
           IF a.err # "" THEN {Fail(a.err, a.scope, cs \o a.calls)}
           ELSE eval_args(args, i + 1, a.scope, Append(args_vec, Dangling(a.val)),
                          cs \o a.calls)
           : a \in interpret_expr(args[i], scope)}

\* interpret_fn_call resolving the name before it evaluates the arguments
interpret_fn_call_resolve_first(expr, scope) ==
    IF expr.name \notin DOMAIN scope
    THEN {Fail("Undefined function", scope, <<>>)}
    ELSE UNION {
           IF a.err # "" THEN {a}
           ELSE {[c EXCEPT !.calls = a.calls \o c.calls] :
                   c \in call_fn(expr.name, a.val, a.scope)}
           : a \in eval_args(expr.args, 1, scope, <<>>, <<>>)}

\* interpreter.rs 232-238
interpret_fn_call(expr, scope) ==
    UNION {
      IF a.err # "" THEN {a}
      ELSE {[c EXCEPT !.calls = a.calls \o c.calls] :
              c \in call_fn(expr.name, a.val, a.scope)}
      : a \in eval_args(expr.args, 1, scope, <<>>, <<>>)}

\* interpreter.rs 239-263
interpret_fn_def(expr, scope) ==
    IF \/ \E a \in expr.args : get_valuetype_from(a.ty) = "panic"
       \/ get_valuetype_from(expr.return_type) = "panic"
    THEN {Fail("Invalid type name", scope, <<>>)}
    ELSE LET funcdef == Fn(UserFn(expr.name,
                                  {[idx |-> a.idx, name |-> a.name,
                                    ty |-> get_valuetype_from(a.ty)] : a \in expr.args},
                                  expr.body,
                                  get_valuetype_from(expr.return_type)))
         IN  {Out(Nothing, insert(scope, expr.name, Dangling(funcdef)), <<>>)}

\* interpreter.rs 219-231
interpret_token(x, scope) ==
    CASE x.t = "Num" -> {Out(IntV(x.n), scope, <<>>)}
      [] x.t = "String" -> {Out(StringV(x.s), scope, <<>>)}
      [] x.t = "Bool" -> {Out(BoolV(x.b), scope, <<>>)}
      [] x.t = "Identifier" ->
           IF x.id \in DOMAIN scope
           THEN {Out(val, scope, <<>>) : val \in deref(scope[x.id], scope)}
           ELSE {Fail("Undefined variable", scope, <<>>)}
      [] OTHER -> {Out(Nothing, scope, <<>>)}

\* interpreter.rs 131-266
interpret_expr(expr, scope) ==
    CASE expr.e = "BinaryExpr" /\ expr.op = "SetVal" ->
           UNION {
             IF r.err # "" THEN {r}
             ELSE {Out(Nothing, insert(r.scope, to_string(expr.lhs), Dangling(r.val)),
                       r.calls)}
             : r \in interpret_expr(expr.rhs, scope)}
      [] expr.e = "BinaryExpr" /\ expr.op # "SetVal" ->
           UNION {
             IF l.err # "" THEN {l}
             ELSE UNION {
                    IF r.err # "" THEN {Fail(r.err, r.scope, l.calls \o r.calls)}
                    ELSE LET x == apply_op(expr.op, l.val, r.val)
                         IN  {[val |-> x.val, scope |-> r.scope, err |-> x.err,
                               calls |-> l.calls \o r.calls]}
                    : r \in interpret_expr(expr.rhs, l.scope)}
             : l \in interpret_expr(expr.lhs, scope)}
      [] expr.e = "Token" -> interpret_token(expr.tok, scope)
      [] expr.e = "FnCall" -> interpret_fn_call(expr, scope)
      [] expr.e = "FnDef" -> interpret_fn_def(expr, scope)
      [] expr.e = "Return" -> {Fail("not yet implemented", scope, <<>>)}

(***************************************************************************)
(* The input programs: token sequences, as the lexer would hand them to    *)
(* Parser::new.                                                            *)
(***************************************************************************)
Nums == {2, 3, 4}
OpSyms == {"+", "-", "*", "/", "==", "!=", "="}
Alphabet == {Num(2), Identifier("x"), OperatorTok("+"), SetValTok, Semicolon,
             ReturnTok, LParen, RParen, Comma}

\* n1 op1 n2 ... nk+1 with the k operators ops between the numbers ns
Chain(ns, ops) ==
    [i \in 1..(2 * Len(ops) + 2) |->
        IF i = 2 * Len(ops) + 2 THEN Semicolon
        ELSE IF i % 2 = 1 THEN Num(ns[(i + 1) \div 2]) ELSE OperatorTok(ops[i \div 2])]
\* func f() { s }
InBody(s) == <<Func, Identifier("f"), LParen, RParen, LBrace>> \o s \o <<RBrace>>

Op(o) == OperatorTok(o)
Id(x) == Identifier(x)
DefAdd ==
    <<Func, Id("add"), LParen, Type("int"), Id("a"), Comma, Type("int"), Id("b"),
      RParen, ReturnType, Type("int"), LBrace,
      ReturnTok, Id("a"), Op("+"), Id("b"), Semicolon, RBrace>>
\* func f(<ty> a) { a; }
DefF1(ty) ==
    <<Func, Id("f"), LParen, Type(ty), Id("a"), RParen, LBrace, Id("a"), Semicolon,
      RBrace>>
\* func f() { 1; }
DefF0 == InBody(<<Num(1), Semicolon>>)
Call0(f) == <<Id(f), LParen, RParen, Semicolon>>
Call1(f, a) == <<Id(f), LParen>> \o a \o <<RParen, Semicolon>>
Call2(f, a, b) == <<Id(f), LParen>> \o a \o <<Comma>> \o b \o <<RParen, Semicolon>>
Assign(x, rhs) == <<Id(x), SetValTok>> \o rhs \o <<Semicolon>>

ProgAdd == DefAdd \o Call2("add", <<Num(2)>>, <<Num(3)>>)
ProgAddOne == DefAdd \o Call1("add", <<Num(2)>>)
ProgAddThree ==
    DefAdd \o <<Id("add"), LParen, Num(2), Comma, Num(3), Comma, Num(4), RParen, Semicolon>>
ProgReturnFirst ==
    <<Func, Id("h"), LParen, RParen, LBrace, ReturnTok, Num(5), Semicolon,
      Num(6), Semicolon, RBrace>> \o Call0("h")
ProgNoReturn ==
    <<Func, Id("g"), LParen, RParen, LBrace, Num(1), Semicolon, Num(2), Semicolon,
      RBrace>> \o Call0("g")
ProgAssign ==
    Assign("x", <<Num(5)>>) \o <<Id("x"), Semicolon>>
      \o Assign("x", <<Num(6)>>) \o <<Id("x"), Semicolon>>
ProgUndefined == Call0("foo")
ProgCallBeforeDef == Call0("f") \o DefF0
ProgCallAfterDef == DefF0 \o Call0("f")
ProgCallTime ==
    Assign("x", <<Num(1)>>) \o DefF1("int") \o Assign("x", <<Num(2)>>)
      \o Call1("f", <<Num(3)>>)
ProgShadow == Assign("a", <<Num(1)>>) \o DefF1("int") \o Call1("f", <<Num(7)>>)
ProgSameName ==
    <<Func, Id("f"), LParen, Type("int"), Id("a"), Comma, Type("int"), Id("a"),
      RParen, LBrace, Id("a"), Semicolon, RBrace>>
      \o Call2("f", <<Num(2)>>, <<Num(3)>>)
ProgArgUndefBoth == Call1("foo", <<Id("y")>>)
ProgArgBindThenUse == Call2("foo", <<Id("x"), SetValTok, Num(1)>>, <<Id("x")>>)
ProgArgUseThenBind == Call2("foo", <<Id("x")>>, <<Id("x"), SetValTok, Num(1)>>)
ProgArgDivUndef == Call2("foo", <<Num(5), Op("/"), Num(0)>>, <<Id("y")>>)
ProgArgUndefDiv == Call2("foo", <<Id("y")>>, <<Num(5), Op("/"), Num(0)>>)
ProgArgNested == Call1("print", <<Id("foo"), LParen, Id("y"), RParen>>)
ProgStrAdd == <<Str("a"), Op("+"), Str("b"), Semicolon>>
ProgIntStrAdd == <<Num(2), Op("+"), Str("b"), Semicolon>>
ProgIdStrAdd == Assign("x", <<Str("a")>>) \o <<Id("x"), Op("+"), Str("b"), Semicolon>>
ProgIdEq == Assign("x", <<Num(3)>>) \o <<Id("x"), Op("=="), Num(3), Semicolon>>
ProgIdEqSingle == Assign("x", <<Num(3)>>) \o <<Id("x"), Op("="), Num(3), Semicolon>>
ProgBool == <<Bool(TRUE), Semicolon>>
ProgBuiltin == Call1("print", <<Num(2)>>)
ProgNotFn == Assign("x", <<Num(1)>>) \o Call0("x")
ProgBadType == DefF1("float")
ProgTopReturn == <<ReturnTok, Num(1), Semicolon>>
ProgDefSemicolon == DefF0 \o <<Semicolon>>
ProgDefThenStmt == DefF0 \o <<Num(2), Semicolon>>
ProgNestedDef == InBody(DefF0 \o <<Num(2), Semicolon>>)
ProgUnclosed == <<Func, Id("f"), LParen, RParen, LBrace, Num(1), Semicolon>>
ProgNoBrace == <<Func, Id("f"), LParen, RParen, ReturnType, Type("int"), Num(1)>>
ProgBadParams == <<Func, Id("f"), LParen, Type("int"), Id("a"), Semicolon>>
ProgBadCall == <<Id("f"), LParen, Num(1), Semicolon>>

Curated ==
    {ProgAdd, ProgAddOne, ProgAddThree, ProgReturnFirst, ProgNoReturn, ProgAssign,
     ProgUndefined, ProgCallBeforeDef, ProgCallAfterDef, ProgCallTime, ProgShadow,
     ProgSameName, ProgArgUndefBoth, ProgArgBindThenUse, ProgArgUseThenBind,
     ProgArgDivUndef, ProgArgUndefDiv, ProgArgNested, ProgStrAdd, ProgIntStrAdd,
     ProgIdStrAdd, ProgIdEq, ProgIdEqSingle, ProgBool, ProgBuiltin, ProgNotFn,
     ProgBadType, ProgTopReturn, ProgDefSemicolon, ProgDefThenStmt, ProgNestedDef,
     ProgUnclosed, ProgNoBrace, ProgBadParams, ProgBadCall}

\* the token sequence toks is one of the input programs
IsProgram(toks) ==
    \/ toks \in Curated
    \/ \E k \in 0..MaxChain :
         \E ns \in [1..(k + 1) -> Nums], ops \in [1..k -> OpSyms] : toks = Chain(ns, ops)
    \/ \E k \in 1..MaxToks :
         \E s \in [1..k -> Alphabet] : toks = s \/ toks = InBody(s)

(***************************************************************************)
(* The program run: Parser::new(tokens).parse(), Interpreter::new(exprs),  *)
(* Interpreter::run().  phase says where the run is:                       *)
(*   "parse"  in the loop of Parser::parse      "parse_panic"  it panicked *)
(*   "parsed" parse has returned exprs                                     *)
(*   "run"    in the loop of Interpreter::run   "run_panic"    it panicked *)
(*   "done"   run has returned                                             *)
(* last is the Value of the statement run evaluated last (run drops it),   *)
(* calls the user-function calls that statement made.                      *)
(***************************************************************************)
Init ==
    /\ IsProgram(tokens)
    /\ pos = 1
    /\ exprs = <<>>
    /\ phase = "parse"
    /\ err = ""
    /\ pc = 1
    /\ toplevel_scope = EmptyScope
    /\ last = Nothing
    /\ calls = <<>>

\* parser.rs 104-111: one iteration of the loop of Parser::parse
parse ==
    /\ phase = "parse"
    /\ pos <= Len(tokens)
    /\ LET r == top_stmt(tokens, pos)
       IN  IF r.err # ""
           THEN /\ phase' = "parse_panic"
                /\ err' = r.err
                /\ UNCHANGED <<pos, exprs>>
           ELSE /\ exprs' = Append(exprs, r.expr)
                /\ pos' = r.pos
                /\ UNCHANGED <<phase, err>>
    /\ UNCHANGED <<tokens, pc, toplevel_scope, last, calls>>

\* parser.rs 104-107, 112: the stream is exhausted, parse returns exprs
parse_return ==
    /\ phase = "parse"
    /\ pos > Len(tokens)
    /\ phase' = "parsed"
    /\ UNCHANGED <<tokens, pos, exprs, err, pc, toplevel_scope, last, calls>>

\* interpreter.rs 268-277: Interpreter::new
new ==
    /\ phase = "parsed"
    /\ toplevel_scope' = make_builtins(EmptyScope)
    /\ phase' = "run"
    /\ UNCHANGED <<tokens, pos, exprs, err, pc, last, calls>>

\* interpreter.rs 280-282: one iteration of the loop of Interpreter::run
run ==
    /\ phase = "run"
    /\ pc <= Len(exprs)
    /\ \E o \in interpret_expr(exprs[pc], toplevel_scope) :
         /\ toplevel_scope' = o.scope
         /\ last' = o.val
         /\ calls' = o.calls
         /\ err' = o.err
         /\ IF o.err # ""
            THEN phase' = "run_panic" /\ pc' = pc
            ELSE phase' = "run" /\ pc' = pc + 1
    /\ UNCHANGED <<tokens, pos, exprs>>

\* interpreter.rs 280, 283: every statement is evaluated, run returns
run_return ==
    /\ phase = "run"
    /\ pc > Len(exprs)
    /\ phase' = "done"
    /\ UNCHANGED <<tokens, pos, exprs, err, pc, toplevel_scope, last, calls>>

Next == parse \/ parse_return \/ new \/ run \/ run_return

Spec == Init /\ [][Next]_vars


(***************************************************************************)
(* What the properties below speak of.                                     *)
(***************************************************************************)
\* run has evaluated a statement and it did not panic
Evaluated == phase \in {"run", "done"} /\ pc > 1
\* that statement
LastStmt == exprs[pc - 1]
\* the statement whose evaluation panicked
FailedStmt == exprs[pc]
\* the literal chain  2 - 3 - 4 ;
Prog234 == <<Num(2), Op("-"), Num(3), Op("-"), Num(4), Semicolon>>

\* toks is  n1 op1 n2 ... ; (at least one operator) with every operator
\* symbol in syms
IsChain(toks, syms) ==
    /\ Len(toks) >= 4
    /\ Len(toks) % 2 = 0
    /\ toks[Len(toks)] = Semicolon
    /\ \A i \in 1..(Len(toks) - 1) :
         IF i % 2 = 1 THEN toks[i].t = "Num"
         ELSE toks[i].t = "Operator" /\ toks[i].op \in syms

\* the variant each operator symbol stands for (parser.rs 11-19, 22-33)
VariantOf(sym) ==
    CASE sym = "+" -> "Add" [] sym = "-" -> "Sub" [] sym = "*" -> "Mul"
      [] sym = "/" -> "Div" [] sym = "==" -> "Eq" [] sym = "!=" -> "Neq"

RECURSIVE RightNest(_, _)
\* the tree  toks[i] op (toks[i+2] op (...))  of a chain
RightNest(toks, i) ==
    IF toks[i + 1] = Semicolon THEN TokenE(toks[i])
    ELSE BinaryExpr(VariantOf(toks[i + 1].op), TokenE(toks[i]), RightNest(toks, i + 2))

RECURSIVE ExpectedResults(_, _)
\* the results a call may have when its body is evaluated statement by
\* statement in scope and the first Return reached ends it; Nothing when
\* there is no Return
ExpectedResults(body, scope) ==
    IF body = <<>> THEN {Nothing}
    ELSE IF Head(body).e = "Return"
         THEN {o.val : o \in {x \in interpret_expr(Head(body).inner, scope) : x.err = ""}}
         ELSE UNION {ExpectedResults(Tail(body), o.scope) :
                       o \in {x \in interpret_expr(Head(body), scope) : x.err = ""}}

(***************************************************************************)
(* C1.  A call of a user function evaluates the body in the call scope and *)
(* yields the value of the first Return reached, or Nothing when the body  *)
(* ends without one:  add(2,3)  yields Int(5).                             *)
(***************************************************************************)
C1_CallYieldsReturnValue ==
    (Evaluated /\ LastStmt.e = "FnCall" /\ calls # <<>>)
      => LET c == calls[Len(calls)]
         IN  /\ last \in ExpectedResults(c.f.body, c.new_scope)
             /\ tokens = ProgAdd => last = IntV(5)

(***************************************************************************)
(* C2.  A chain  n1 op1 n2 op2 ... nk  of integer literals joined by       *)
(* arithmetic operators parses, and parses to the right-nested tree        *)
(* n1 op1 (n2 op2 (...)); 2 - 3 - 4 evaluates to Int(3).                   *)
(***************************************************************************)
C2_RightNested ==
    /\ IsChain(tokens, {"+", "-", "*", "/"})
         => /\ phase # "parse_panic"
            /\ pos > 1 => exprs = <<RightNest(tokens, 1)>>
    /\ tokens = Prog234
         => /\ phase # "run_panic"
            /\ Evaluated => last = IntV(3)

C2_Witness == tokens = Prog234 /\ phase = "done" /\ last = IntV(3)

(***************************************************************************)
(* C3.  An integer literal followed by an operator token carrying any of   *)
(* "+", "-", "*", "/", "==", "!=" parses to the BinaryExpr of the variant  *)
(* Operator::from_str gives that symbol; 3 == 3 and 3 != 4 evaluate to     *)
(* Bool(true).                                                             *)
(***************************************************************************)
C3_SixSymbols ==
    IsChain(tokens, {"+", "-", "*", "/", "==", "!="})
      => /\ phase # "parse_panic"
         /\ pos > 1 => /\ exprs[1].e = "BinaryExpr"
                       /\ exprs[1].op = from_str(tokens[2].op)
         /\ (Evaluated /\ Len(tokens) = 4 /\ tokens[2].op \in {"==", "!="})
              => last = BoolV((tokens[1].n = tokens[3].n) = (tokens[2].op = "=="))

(***************************************************************************)
(* C4.  Looking a name up yields the value of the most recent assignment   *)
(* to it: the stored value stays valid after the assigning statement has   *)
(* ended, a later assignment overwrites it, and an assignment itself       *)
(* yields Nothing.                                                         *)
(***************************************************************************)
\* the statements before statement k that assign a literal to name
AssignsBefore(name, k) ==
    {j \in 1..(k - 1) :
       /\ exprs[j].e = "BinaryExpr" /\ exprs[j].op = "SetVal"
       /\ exprs[j].lhs.tok.id = name}
Latest(S) == CHOOSE j \in S : \A i \in S : i <= j
LiteralValue(tok) ==
    CASE tok.t = "Num" -> IntV(tok.n)
      [] tok.t = "String" -> StringV(tok.s)
      [] tok.t = "Bool" -> BoolV(tok.b)

\* C4: a lookup yields the literal the latest assignment to the name stored,
\* and an assignment yields Nothing
C4_LastWriteWins ==
    Evaluated =>
      /\ (LastStmt.e = "BinaryExpr" /\ LastStmt.op = "SetVal") => last = Nothing
      /\ ( /\ LastStmt.e = "Token" /\ LastStmt.tok.t = "Identifier"
           /\ AssignsBefore(LastStmt.tok.id, pc - 1) # {}
           /\ exprs[Latest(AssignsBefore(LastStmt.tok.id, pc - 1))].rhs.e = "Token"
           /\ exprs[Latest(AssignsBefore(LastStmt.tok.id, pc - 1))].rhs.tok.t
                \in {"Num", "String", "Bool"} )
         => last = LiteralValue(
                     exprs[Latest(AssignsBefore(LastStmt.tok.id, pc - 1))].rhs.tok)

(***************************************************************************)
(* C5.  A call of a user function with fewer arguments than it has         *)
(* declared parameters fails with an argument-count error.                 *)
(***************************************************************************)
ArityMismatch == "Wrong number of arguments"

\* C5: every call that passes fewer arguments than the function has
\* parameters panics with the argument-count error
C5_ArityError ==
    \A i \in DOMAIN calls :
      Len(calls[i].passed) < Cardinality(calls[i].f.args)
        => phase = "run_panic" /\ err = ArityMismatch

(***************************************************************************)
(* C6.  A user function is callable only after its FnDef statement has     *)
(* been evaluated: a call of a name nothing has bound fails with           *)
(* "Undefined function", and a call evaluated after the FnDef resolves to  *)
(* that user function.                                                     *)
(***************************************************************************)
RECURSIVE Binds(_, _)
\* evaluating expr can bind name
Binds(expr, name) ==
    CASE expr.e = "FnDef" -> expr.name = name
      [] expr.e = "BinaryExpr" ->
           \/ expr.op = "SetVal" /\ expr.lhs.tok.id = name
           \/ Binds(expr.lhs, name)
           \/ Binds(expr.rhs, name)
      [] expr.e = "FnCall" -> \E i \in DOMAIN expr.args : Binds(expr.args[i], name)
      [] expr.e = "Return" -> Binds(expr.inner, name)
      [] OTHER -> FALSE
BindersBefore(name, k) == {j \in 1..(k - 1) : Binds(exprs[j], name)}
\* a call whose arguments are integer literals: they neither fail nor bind
PlainCall(expr) ==
    /\ expr.e = "FnCall"
    /\ \A i \in DOMAIN expr.args : expr.args[i].e = "Token" /\ expr.args[i].tok.t = "Num"
\* the statement run evaluated last, whether it panicked or not
RanStmt == IF phase = "run_panic" THEN FailedStmt ELSE LastStmt
RanIndex == IF phase = "run_panic" THEN pc ELSE pc - 1

\* C6: a call of an unbound name fails with "Undefined function"; a call
\* whose name was last bound by a FnDef resolves to that user function
C6_CallableAfterDef ==
    ((Evaluated \/ phase = "run_panic") /\ PlainCall(RanStmt)
       /\ RanStmt.name \notin DOMAIN make_builtins(EmptyScope))
      => LET name == RanStmt.name
             before == BindersBefore(name, RanIndex)
         IN  /\ before = {} => phase = "run_panic" /\ err = "Undefined function"
             /\ ( /\ before # {}
                  /\ exprs[Latest(before)].e = "FnDef"
                  /\ Len(RanStmt.args) >= Cardinality(exprs[Latest(before)].args) )
                => /\ phase # "run_panic"
                   /\ calls # <<>>
                   /\ calls[Len(calls)].f.kind = "User"
                   /\ calls[Len(calls)].f.name = name
                   /\ calls[Len(calls)].f.body = exprs[Latest(before)].body

(***************************************************************************)
(* C7.  The scope a user function call builds is a copy of the caller's    *)
(* scope as it is when the call is made, with every declared parameter     *)
(* name bound to the argument at its positional index, over any binding    *)
(* the caller has of that name; nothing comes from the scope the function  *)
(* was defined in.  (Bindings are compared as the references stored.)      *)
(***************************************************************************)
C7_CallScope ==
    /\ \A i \in DOMAIN calls :
         calls[i].bound =>
           LET c == calls[i]
               params == {a.name : a \in c.f.args}
           IN  /\ DOMAIN c.new_scope = DOMAIN c.caller \cup params
               /\ \A n \in DOMAIN c.new_scope :
                    IF n \in params
                    THEN \E a \in c.f.args :
                           a.name = n /\ c.new_scope[n] = c.passed[a.idx + 1]
                    ELSE c.new_scope[n] = c.caller[n]
    /\ (Evaluated /\ LastStmt.e = "FnCall" /\ calls # <<>>)
         => calls[Len(calls)].caller = toplevel_scope
    /\ (tokens = ProgCallTime /\ pc = 5 /\ calls # <<>>)
         => /\ calls[1].new_scope["x"].val = IntV(2)
            /\ calls[1].new_scope["a"].val = IntV(3)
    /\ (tokens = ProgShadow /\ pc = 4 /\ calls # <<>>)
         => calls[1].new_scope["a"].val = IntV(7)

C7_Witness ==
    /\ tokens = ProgShadow /\ pc = 4
    /\ calls # <<>> /\ calls[1].bound /\ calls[1].f.name = "f"
    /\ calls[1].caller["a"].val = IntV(1)

(***************************************************************************)
(* C8.  Every top-level statement and every statement of a function body   *)
(* is followed by a semicolon the parser consumes, and the parse fails     *)
(* with "Expected semicolon" when it is absent; a func definition takes no *)
(* terminator after its closing brace, and operands, call arguments and    *)
(* the expression of a return are parsed without one.  So the tokens       *)
(* consumed are exactly the tokens of the statements parsed, each          *)
(* statement but a func definition with one semicolon after it.            *)
(***************************************************************************)
RECURSIVE Shape(_)
RECURSIVE ShapeArgs(_, _)
RECURSIVE ShapeBody(_, _)
RECURSIVE ShapeParams(_, _)
\* the token kinds a statement takes: those of its expression, and a
\* semicolon unless it is a func definition
StmtShape(expr) == Shape(expr) \o (IF expr.e = "FnDef" THEN <<>> ELSE <<"Semicolon">>)
ShapeBody(body, i) ==
    IF i > Len(body) THEN <<>> ELSE StmtShape(body[i]) \o ShapeBody(body, i + 1)
ShapeArgs(args, i) ==
    IF i > Len(args) THEN <<>>
    ELSE (IF i > 1 THEN <<"Comma">> ELSE <<>>) \o Shape(args[i]) \o ShapeArgs(args, i + 1)
ShapeParams(n, i) ==
    IF i >= n THEN <<>>
    ELSE (IF i > 0 THEN <<"Comma">> ELSE <<>>) \o <<"Type", "Identifier">>
           \o ShapeParams(n, i + 1)
\* the token kinds an expression is parsed from; "any" is the one token,
\* whatever it is, that became an Error leaf
Shape(expr) ==
    CASE expr.e = "Token" -> IF expr.tok = Error THEN <<"any">> ELSE <<expr.tok.t>>
      [] expr.e = "BinaryExpr" ->
           <<expr.lhs.tok.t, IF expr.op = "SetVal" THEN "SetVal" ELSE "Operator">>
             \o Shape(expr.rhs)
      [] expr.e = "FnCall" ->
           <<"Identifier", "LParen">> \o ShapeArgs(expr.args, 1) \o <<"RParen">>
      [] expr.e = "Return" -> <<"Return">> \o Shape(expr.inner)
      [] expr.e = "FnDef" ->
           <<"Func", "Identifier", "LParen">>
             \o ShapeParams(Cardinality(expr.args), 0) \o <<"RParen">>
             \o (IF expr.return_type = "_none" THEN <<>> ELSE <<"ReturnType", "Type">>)
             \o <<"LBrace">> \o ShapeBody(expr.body, 1) \o <<"RBrace">>

\* C8: the tokens consumed so far are the shapes of the statements parsed,
\* a semicolon after each but the func definitions; "Expected semicolon" is
\* raised only at a token that is no semicolon; func f() { 1; }; fails
C8_Terminators ==
    LET shape == ShapeBody(exprs, 1)
    IN  /\ Len(shape) = pos - 1
        /\ \A i \in 1..Len(shape) : shape[i] = "any" \/ shape[i] = tokens[i].t
        /\ (phase = "parse_panic" /\ err = "Expected semicolon")
             => peek(tokens, top_stmt(tokens, pos).pos) # Semicolon
        /\ tokens = ProgDefSemicolon => phase \in {"parse", "parse_panic"}

C8_Witness ==
    /\ tokens = ProgNestedDef
    /\ phase = "parsed"
    /\ Len(exprs) = 1 /\ Len(exprs[1].body) = 2 /\ exprs[1].body[1].e = "FnDef"

(***************************************************************************)
(* C9, as claimed.  An addition statement over two literals yields the Int *)
(* sum for two integers, the String concatenation for two strings          *)
(* ("a" + "b" yields String("ab")) and a type-mismatch failure for an      *)
(* integer and a string.                                                   *)
(***************************************************************************)
IntAdd == IsChain(tokens, {"+"}) /\ Len(tokens) = 4

\* C9 as claimed: n + m yields Int(n + m), "a" + "b" yields String("ab"),
\* 2 + "b" fails with the type mismatch
C9_LiteralAddition ==
    /\ IntAdd => /\ phase \notin {"parse_panic", "run_panic"}
                 /\ Evaluated => last = IntV(tokens[1].n + tokens[3].n)
    /\ tokens = ProgStrAdd
         => /\ phase \notin {"parse_panic", "run_panic"}
            /\ Evaluated => last = StringV("ab")
    /\ tokens = ProgIntStrAdd
         => /\ phase \notin {"parse_panic", "done"}
            /\ phase = "run_panic" => err = "Cannot add non-numeric values"

(***************************************************************************)
(* C9, amended.  Two integer literals yield the Int sum and an integer     *)
(* with a string a type-mismatch failure; an addition statement that       *)
(* starts with a string literal does not parse: the literal is a bare leaf *)
(* and the "+" after it fails the terminator check.                        *)
(***************************************************************************)
C9_LiteralAdditionAmended ==
    /\ IntAdd => /\ phase \notin {"parse_panic", "run_panic"}
                 /\ Evaluated => last = IntV(tokens[1].n + tokens[3].n)
    /\ tokens = ProgStrAdd
         => /\ phase \in {"parse", "parse_panic"}
            /\ phase = "parse_panic" => err = "Expected semicolon"
    /\ tokens = ProgIntStrAdd
         => /\ phase \notin {"parse_panic", "done"}
            /\ phase = "run_panic" => err = "Cannot add non-numeric values"

C9_Witness == tokens = ProgStrAdd /\ phase = "parse_panic" /\ exprs = <<>>

(***************************************************************************)
(* C10.  A FnCall evaluates its arguments left to right in the caller's    *)
(* scope, and only then resolves the function name: the first argument     *)
(* that fails ends the call with its error and with the scope as the       *)
(* arguments before it left it, and a call of an undefined name with an    *)
(* undefined argument fails with "Undefined variable".                     *)
(***************************************************************************)
RECURSIVE ArgsInOrder(_, _, _)
\* what evaluating args[i], args[i+1], ... one after the other from scope
\* can come to: [failed, err, scope]
ArgsInOrder(args, i, scope) ==
    IF i > Len(args) THEN {[failed |-> FALSE, err |-> "", scope |-> scope]}
    ELSE UNION {
           IF o.err # "" THEN {[failed |-> TRUE, err |-> o.err, scope |-> o.scope]}
           ELSE ArgsInOrder(args, i + 1, o.scope)
           : o \in interpret_expr(args[i], scope)}

C10_Cases ==
    /\ tokens = ProgArgUndefBoth
         => ~Evaluated /\ (phase = "run_panic" => err = "Undefined variable")
    /\ tokens = ProgArgUseThenBind
         => /\ ~Evaluated /\ "x" \notin DOMAIN toplevel_scope
            /\ phase = "run_panic" => err = "Undefined variable"
    /\ tokens = ProgArgBindThenUse
         => /\ ~Evaluated
            /\ phase = "run_panic" => /\ err = "Undefined function"
                                      /\ "x" \in DOMAIN toplevel_scope
    /\ tokens = ProgArgDivUndef
         => ~Evaluated /\ (phase = "run_panic" => err = "attempt to divide by zero")
    /\ tokens = ProgArgUndefDiv
         => ~Evaluated /\ (phase = "run_panic" => err = "Undefined variable")

\* a step of run that evaluates a FnCall statement
C10_Step ==
    (phase = "run" /\ pc <= Len(exprs) /\ exprs[pc].e = "FnCall")
      => \E r \in ArgsInOrder(exprs[pc].args, 1, toplevel_scope) :
           /\ toplevel_scope' = r.scope
           /\ r.failed => phase' = "run_panic" /\ err' = r.err
           /\ (~r.failed /\ exprs[pc].name \notin DOMAIN r.scope)
                => phase' = "run_panic" /\ err' = "Undefined function"

\* C10: the cases above hold in every state, and every FnCall step leaves
\* the scope and the error of its arguments evaluated in order, the name
\* looked up only when none of them failed
C10_ArgsBeforeResolve == [](C10_Cases) /\ [][C10_Step]_vars

C10_Witness ==
    tokens = ProgArgUndefBoth /\ phase = "run_panic" /\ err = "Undefined variable"

\* a step of run that evaluates a call statement with literal arguments and
\* reaches the user arm of call_fn
UserCallStep ==
    /\ phase = "run" /\ pc <= Len(exprs) /\ PlainCall(exprs[pc])
    /\ Len(calls') = Len(calls) + 1
    /\ calls'[Len(calls')].name = exprs[pc].name

C11_Cases ==
    /\ (tokens = ProgCallTime /\ phase \in {"run", "done"})
         => "a" \notin DOMAIN toplevel_scope
    /\ (tokens = ProgShadow /\ phase \in {"run", "done"} /\ pc > 1)
         => toplevel_scope["a"] = Dangling(IntV(1))
    /\ (tokens = ProgAdd /\ phase \in {"run", "done"})
         => DOMAIN toplevel_scope \subseteq {"print", "add"}

C11_Step ==
    UserCallStep
      => /\ toplevel_scope' = toplevel_scope
         /\ \A a \in calls'[Len(calls')].f.args :
              a.name \in DOMAIN toplevel_scope' => a.name \in DOMAIN toplevel_scope

\* C11: a user function call leaves the caller's scope as it was: every name
\* keeps the entry it had before the call and no parameter name is added,
\* the parameters being bound in the call's own copy only
C11_CallerScopeUnchanged == [](C11_Cases) /\ [][C11_Step]_vars

C11_Witness ==
    /\ tokens = ProgShadow /\ phase = "done"
    /\ calls # <<>> /\ calls[1].bound
    /\ calls[1].new_scope["a"] = Dangling(IntV(7))
    /\ toplevel_scope["a"] = Dangling(IntV(1))

\* the positions of the token stream, the end of the stream included
Positions == 1..(Len(tokens) + 1)
\* Parser::parse has just been called on tokens
ParseCalled == phase = "parse" /\ pos = 1 /\ exprs = <<>>

\* the stream ends where a body statement or a call argument is due: the
\* iteration fails
C12_StreamEnds ==
    /\ body_stmt(tokens, Len(tokens) + 1).err # ""
    /\ handle_func_block(tokens, Len(tokens) + 1).err = "Expected semicolon"
    /\ parse_fn_call("f", tokens, Len(tokens) + 1).err = "Expect comma, or ')'"
    /\ parse_params(tokens, Len(tokens) + 1, 0, {}).err = "Expected type"

\* from any position, one iteration of a loop fails or moves on, and a loop
\* that returns ran no more iterations than it consumed tokens
C12_Progress ==
    \A p \in Positions :
      /\ p <= Len(tokens)
           => LET r == top_stmt(tokens, p) IN r.err # "" \/ r.pos > p
      /\ LET r == body_stmt(tokens, p) IN r.err # "" \/ r.pos > p
      /\ LET r == parse_rhs(tokens, p)
         IN  (r.err = "" /\ peek(tokens, r.pos) \in {Comma, RParen})
               => advance(tokens, r.pos) > p
      /\ LET b == handle_func_block(tokens, p)
         IN  b.err = "" => b.pos <= Len(tokens) + 1 /\ b.pos - p >= Len(b.expr) + 1
      /\ LET c == parse_fn_call("f", tokens, p)
         IN  c.err = "" => /\ c.pos <= Len(tokens) + 1
                           /\ c.pos - p >= Len(c.expr.args)
                           /\ c.pos > p
      /\ LET v == parse_params(tokens, p, 0, {})
         IN  v.err = "" => v.pos <= Len(tokens) + 1 /\ v.pos - p >= Cardinality(v.expr)

\* the top-level loop: an expression per iteration, a token at least per
\* expression; a panic hands no AST on, a return has consumed every token
C12_Outcome ==
    /\ pos \in Positions
    /\ Len(exprs) <= pos - 1
    /\ phase = "parse_panic"
         => err # "" /\ pc = 1 /\ toplevel_scope = EmptyScope /\ ~ENABLED Next
    /\ phase \in {"parsed", "run", "run_panic", "done"} => pos = Len(tokens) + 1
    /\ tokens = ProgUnclosed => phase \in {"parse", "parse_panic"}
    /\ tokens = ProgBadCall => phase \in {"parse", "parse_panic"}

\* C12: Parser::parse terminates on every token sequence, failing with no AST
\* or returning with every token consumed, no loop running more iterations
\* than there are tokens; every iteration of the top-level, body, parameter
\* and argument loops consumes a token or fails, also where the stream ends
\* inside an unclosed body or argument list
C12_ParseTerminates ==
    /\ ParseCalled => C12_StreamEnds /\ C12_Progress
    /\ C12_Outcome

C12_Witness ==
    /\ tokens = ProgUnclosed
    /\ phase = "parse_panic"
    /\ err = "Expected semicolon"

====
